---- MODULE Spec2Model ----
(***************************************************************************)
(* A model of the carlitos / PlainScript compiler front end:               *)
(*   - compile (src/src/plainscript.ts): parse, analyze, optimize, gen;    *)
(*   - FunctionDeclaration.analyze (src/syntax/parser.js) and the          *)
(*     parameter scan it shares with FunctionObject.analyze                *)
(*     (src/src/ast/function-object.ts);                                   *)
(*   - AssignmentStatement.analyze (src/src/ast/function-object.ts);       *)
(*   - FunctionObject.optimize (src/src/ast/function-object.ts).           *)
(* Context, Parameter, the expression nodes and the per-node optimize()    *)
(* are not part of the sources at hand; they are modelled from the         *)
(* design document (sections 4.1 to 4.3).                                  *)
(***************************************************************************)
EXTENDS Integers, Sequences, FiniteSets

VARIABLES
  pc,        \* position of the running call
  opts,      \* compile's options {astOnly, frontEndOnly, shouldOptimize}
  fn,        \* the function declaration node: id, params, body and name sets
  scopes,    \* declarations of each Context: root, outer (enclosing), local
  i,         \* index of the parameter being analyzed
  j,         \* index of the body statement being analyzed
  k,         \* index of the source / target being analyzed
  error,     \* the error thrown, "none" while none was
  log,       \* what has been done so far, in order (decorations included)
  result,    \* what compile returned
  passes,    \* number of optimize() calls made on fn
  returned,  \* what each body statement's optimize() returned in the last pass
  firstPass  \* fn as the first optimize() call left it

vars == <<pc, opts, fn, scopes, i, j, k, error, log, result,
          passes, returned, firstPass>>

(***************************************************************************)
(* Bounds of the model.                                                    *)
(***************************************************************************)
MaxParams == 2
MaxBody == 2
MaxArity == 2

(***************************************************************************)
(* AST nodes.                                                              *)
(***************************************************************************)
Names == {"f", "a"}
FunId == "f"

Null == [kind |-> "null"]
Num(n) == [kind |-> "num", value |-> n]
Bool(b) == [kind |-> "bool", value |-> b]
Var(x) == [kind |-> "var", id |-> x]
Bin(l, r) == [kind |-> "bin", op |-> "+", left |-> l, right |-> r]
Param(x, e) == [kind |-> "param", id |-> x, defaultExpression |-> e]
Assign(ts, ss) == [kind |-> "assign", targets |-> ts, sources |-> ss]
If(c, s) == [kind |-> "if", test |-> c, body |-> s]

isRequired(p) == p.defaultExpression = Null

SeqsUpTo(S, lo, hi) == UNION {[1..n -> S] : n \in lo..hi}

(***************************************************************************)
(* Context: a chain of scopes searched from the innermost outwards.        *)
(***************************************************************************)
NoCtx == "none"
Parent(c) == IF c = "local" THEN "outer" ELSE IF c = "outer" THEN "root" ELSE NoCtx

NoDecl == [id |-> "", origin |-> "none", idx |-> 0]
Earlier(x, c) == [id |-> x, origin |-> c, idx |-> 0]
ParamDecl(x, n) == [id |-> x, origin |-> "param", idx |-> n]
FunDecl == [id |-> FunId, origin |-> "function", idx |-> 0]

Declares(sc, c, x) == \E d \in sc[c] : d.id = x

RECURSIVE lookup(_, _, _)
lookup(sc, c, x) ==
  IF c = NoCtx THEN NoDecl
  ELSE IF Declares(sc, c, x) THEN CHOOSE d \in sc[c] : d.id = x
  ELSE lookup(sc, Parent(c), x)

addVariableFails(sc, c, d) == Declares(sc, c, d.id)
addVariable(sc, c, d) == [sc EXCEPT ![c] = @ \cup {d}]

(***************************************************************************)
(* Expression analysis: the variables of an expression are resolved left   *)
(* to right; literals have no effect.                                      *)
(***************************************************************************)
RECURSIVE VarsOf(_)
VarsOf(e) ==
  IF e.kind = "var" THEN <<e.id>>
  ELSE IF e.kind = "bin" THEN VarsOf(e.left) \o VarsOf(e.right)
  ELSE <<>>

Resolves(sc, c, e) == \A n \in 1..Len(VarsOf(e)) : lookup(sc, c, VarsOf(e)[n]) # NoDecl

Event(ev, c, part, x, y, name, ref) ==
  [ev |-> ev, ctx |-> c, part |-> part, i |-> x, k |-> y, name |-> name, ref |-> ref]

Resolutions(sc, c, e, part, x, y) ==
  [n \in 1..Len(VarsOf(e)) |->
     Event("resolve", c, part, x, y, VarsOf(e)[n], lookup(sc, c, VarsOf(e)[n]))]

Call(stage, what) == Event(what, NoCtx, stage, 0, 0, "", NoDecl)

Fail(c, part, x, y) == Event("fail", c, part, x, y, "", NoDecl)

Throw(err, ev) ==
  /\ pc' = "threw"
  /\ error' = err
  /\ log' = Append(log, ev)

(***************************************************************************)
(* FunctionDeclaration.analyze                                             *)
(***************************************************************************)
\* Variant: the function is put into the enclosing context first, before its
\* parameters are analyzed.
FDStartRegistersFirst ==
  /\ pc = "fd_start"
  /\ scopes' = [scopes EXCEPT !["local"] = {}, !["outer"] = @ \cup {FunDecl}]
  /\ i' = 1
  /\ pc' = "fd_params"
  /\ log' = Append(log, Event("scope", "local", "function", 0, 0, "", NoDecl))
  /\ UNCHANGED <<opts, fn, j, k, error, result, passes, returned, firstPass>>

\* const localContext = context.createChildContextForFunctionBody(this)
FDStart ==
  /\ pc = "fd_start"
  /\ scopes' = [scopes EXCEPT !["local"] = {}]
  /\ i' = 1
  /\ pc' = "fd_params"
  /\ log' = Append(log, Event("scope", "local", "function", 0, 0, "", NoDecl))
  /\ UNCHANGED <<opts, fn, j, k, error, result, passes, returned, firstPass>>

\* this.params.forEach(p => p.analyze(localContext)), one parameter a step
ParamCtx == "local"

FDParam ==
  /\ pc = "fd_params"
  /\ IF i > Len(fn.params)
     THEN /\ pc' = "fd_order"
          /\ UNCHANGED <<scopes, i, error, log>>
     ELSE LET p == fn.params[i]
              e == p.defaultExpression
          IN IF ~Resolves(scopes, ParamCtx, e)
             THEN /\ Throw("UndeclaredIdentifier", Fail(ParamCtx, "default", i, 0))
                  /\ UNCHANGED <<scopes, i>>
             ELSE IF addVariableFails(scopes, ParamCtx, ParamDecl(p.id, i))
             THEN /\ Throw("DuplicateDeclaration", Fail(ParamCtx, "param", i, 0))
                  /\ UNCHANGED <<scopes, i>>
             ELSE /\ scopes' = addVariable(scopes, ParamCtx, ParamDecl(p.id, i))
                  /\ log' = log \o Resolutions(scopes, ParamCtx, e, "default", i, 0)
                              \o <<Event("declare", ParamCtx, "param", i, 0, p.id,
                                         ParamDecl(p.id, i))>>
                  /\ i' = i + 1
                  /\ UNCHANGED <<pc, error>>
  /\ UNCHANGED <<opts, fn, j, k, result, passes, returned, firstPass>>

\* Variant: the size comparison the wrong way round.
RECURSIVE OrderScanReversed(_, _, _, _)
OrderScanReversed(ps, n, req, all) ==
  IF n > Len(ps) THEN [req |-> req, all |-> all, threw |-> FALSE]
  ELSE LET all2 == all \cup {ps[n].id}
       IN IF isRequired(ps[n])
          THEN LET req2 == req \cup {ps[n].id}
               IN IF Cardinality(req2) > Cardinality(all2)
                  THEN [req |-> req2, all |-> all2, threw |-> TRUE]
                  ELSE OrderScanReversed(ps, n + 1, req2, all2)
          ELSE OrderScanReversed(ps, n + 1, req, all2)

\* The scan of lines 23-33: the two name sets, and the throw.
RECURSIVE OrderScan(_, _, _, _)
OrderScan(ps, n, req, all) ==
  IF n > Len(ps) THEN [req |-> req, all |-> all, threw |-> FALSE]
  ELSE LET all2 == all \cup {ps[n].id}
       IN IF isRequired(ps[n])
          THEN LET req2 == req \cup {ps[n].id}
               IN IF Cardinality(req2) < Cardinality(all2)
                  THEN [req |-> req2, all |-> all2, threw |-> TRUE]
                  ELSE OrderScan(ps, n + 1, req2, all2)
          ELSE OrderScan(ps, n + 1, req, all2)

\* Variant: the function is registered before the scan, so a failing scan
\* leaves it in the enclosing context.
FDOrderAfterRegister ==
  /\ pc = "fd_order"
  /\ LET r == OrderScan(fn.params, 1, {}, {})
     IN /\ fn' = [fn EXCEPT !.requiredParameterNames = r.req,
                            !.allParameterNames = r.all]
        /\ IF r.threw
           THEN /\ Throw("ParameterOrder", Fail(ParamCtx, "order", 0, 0))
                /\ scopes' = [scopes EXCEPT !["outer"] = @ \cup {FunDecl}]
           ELSE /\ pc' = "fd_register"
                /\ UNCHANGED <<error, log, scopes>>
  /\ UNCHANGED <<opts, i, j, k, result, passes, returned, firstPass>>

FDOrder ==
  /\ pc = "fd_order"
  /\ LET r == OrderScan(fn.params, 1, {}, {})
     IN /\ fn' = [fn EXCEPT !.requiredParameterNames = r.req,
                            !.allParameterNames = r.all]
        /\ IF r.threw
           THEN Throw("ParameterOrder", Fail(ParamCtx, "order", 0, 0))
           ELSE /\ pc' = "fd_register"
                /\ UNCHANGED <<error, log>>
  /\ UNCHANGED <<opts, scopes, i, j, k, result, passes, returned, firstPass>>

\* Variant: the function is declared in its own scope.
RegisterCtxLocal == "local"

\* context.addVariable(this)
RegisterCtx == "outer"

\* Variant: the body is analyzed without the function having been added.
FDRegisterSkipped ==
  /\ pc = "fd_register"
  /\ j' = 1
  /\ pc' = "fd_body"
  /\ UNCHANGED <<opts, fn, scopes, i, k, error, log, result, passes,
                 returned, firstPass>>

FDRegister ==
  /\ pc = "fd_register"
  /\ IF addVariableFails(scopes, RegisterCtx, FunDecl)
     THEN /\ Throw("DuplicateDeclaration", Fail(RegisterCtx, "function", 0, 0))
          /\ UNCHANGED <<scopes, j>>
     ELSE /\ scopes' = addVariable(scopes, RegisterCtx, FunDecl)
          /\ log' = Append(log, Event("declare", RegisterCtx, "function", 0, 0, FunId, FunDecl))
          /\ j' = 1
          /\ pc' = "fd_body"
          /\ UNCHANGED error
  /\ UNCHANGED <<opts, fn, i, k, result, passes, returned, firstPass>>

\* this.body.forEach(s => s.analyze(localContext))
BodyCtx == "local"

FDBody ==
  /\ pc = "fd_body"
  /\ IF j > Len(fn.body)
     THEN /\ pc' = "analyzed"
          /\ log' = Append(log, Call("analyze", "return"))
     ELSE /\ pc' = "as_start"
          /\ UNCHANGED log
  /\ UNCHANGED <<opts, fn, scopes, i, j, k, error, result, passes, returned, firstPass>>

(***************************************************************************)
(* AssignmentStatement.analyze, on statement j of the body, in the local   *)
(* context.                                                                *)
(***************************************************************************)
\* Variant: the lengths are never compared.
ArityNeverChecked(s) == FALSE

ArityMismatch(s) == Len(s.targets) # Len(s.sources)

\* Variant: the targets are analyzed first, and the sources not at all.
ASStartTargetsFirst ==
  /\ pc = "as_start"
  /\ IF ArityMismatch(fn.body[j])
     THEN /\ Throw("ArityMismatch", Fail(BodyCtx, "assign", j, 0))
          /\ UNCHANGED k
     ELSE /\ pc' = "as_targets"
          /\ k' = 1
          /\ UNCHANGED <<error, log>>
  /\ UNCHANGED <<opts, fn, scopes, i, j, result, passes, returned, firstPass>>

ASStart ==
  /\ pc = "as_start"
  /\ IF ArityMismatch(fn.body[j])
     THEN /\ Throw("ArityMismatch", Fail(BodyCtx, "assign", j, 0))
          /\ UNCHANGED k
     ELSE /\ pc' = "as_sources"
          /\ k' = 1
          /\ UNCHANGED <<error, log>>
  /\ UNCHANGED <<opts, fn, scopes, i, j, result, passes, returned, firstPass>>

\* analysis of one child expression e
AnalyzeChild(e, part) ==
  IF ~Resolves(scopes, BodyCtx, e)
  THEN /\ Throw("UndeclaredIdentifier", Fail(BodyCtx, part, j, k))
       /\ UNCHANGED <<j, k>>
  ELSE /\ log' = log \o Resolutions(scopes, BodyCtx, e, part, j, k)
                     \o <<Event("analyzed", BodyCtx, part, j, k, "", NoDecl)>>
       /\ k' = k + 1
       /\ UNCHANGED <<pc, error, j>>

ASSource ==
  /\ pc = "as_sources"
  /\ IF k > Len(fn.body[j].sources)
     THEN /\ pc' = "as_targets"
          /\ k' = 1
          /\ UNCHANGED <<error, log, j>>
     ELSE AnalyzeChild(fn.body[j].sources[k], "source")
  /\ UNCHANGED <<opts, fn, scopes, i, result, passes, returned, firstPass>>

ASTarget ==
  /\ pc = "as_targets"
  /\ IF k > Len(fn.body[j].targets)
     THEN /\ pc' = "fd_body"
          /\ j' = j + 1
          /\ k' = 0
          /\ UNCHANGED <<error, log>>
     ELSE AnalyzeChild(fn.body[j].targets[k], "target")
  /\ UNCHANGED <<opts, fn, scopes, i, result, passes, returned, firstPass>>

(***************************************************************************)
(* Analysis of one function declaration in a given enclosing scope.        *)
(***************************************************************************)
Function(ps, b) ==
  [id |-> FunId, params |-> ps, body |-> b,
   requiredParameterNames |-> {}, allParameterNames |-> {}]

Defaults == {Null, Num(1), Var(FunId), Var("a")}
Params == {Param(x, e) : x \in Names, e \in Defaults}
FunStmts ==
  {Assign(<<Var("a")>>, <<e>>) : e \in {Num(1), Var(FunId)}}
    \cup {Assign(<<Var("a")>>, <<Num(1), Var(FunId)>>),
          Assign(<<Var("a"), Var(FunId)>>, <<Var(FunId), Num(1)>>)}

Enclosing ==
  {[root |-> {Earlier(x, "root") : x \in r},
    outer |-> {Earlier(x, "outer") : x \in o},
    local |-> {}] : r \in SUBSET {FunId}, o \in SUBSET Names}

NoOpts == [astOnly |-> FALSE, frontEndOnly |-> FALSE, shouldOptimize |-> FALSE]

Init ==
  /\ pc = "fd_start"
  /\ opts = NoOpts
  /\ fn \in {Function(ps, b) : ps \in SeqsUpTo(Params, 0, MaxParams),
                               b \in SeqsUpTo(FunStmts, 0, MaxBody)}
  /\ scopes \in Enclosing
  /\ i = 0 /\ j = 0 /\ k = 0
  /\ error = "none"
  /\ log = <<>>
  /\ result = "none"
  /\ passes = 0
  /\ returned = <<>>
  /\ firstPass = Null

Next ==
  \/ FDStart
  \/ FDParam
  \/ FDOrder
  \/ FDRegister
  \/ FDBody
  \/ ASStart
  \/ ASSource
  \/ ASTarget

Spec == Init /\ [][Next]_vars

(***************************************************************************)
(* Analysis of one assignment statement in a given context.                *)
(***************************************************************************)
AssignNames == {"a", "b"}
AssignTargets == {Var(x) : x \in AssignNames}
AssignSources == {Num(1)} \cup {Var(x) : x \in AssignNames}
AssignContexts ==
  {[root |-> {},
    outer |-> {Earlier(x, "outer") : x \in o},
    local |-> {ParamDecl(x, 1) : x \in l}] :
      o \in SUBSET AssignNames, l \in {{}, {"a"}}}

InitAssign ==
  /\ pc = "as_start"
  /\ opts = NoOpts
  /\ fn \in {Function(<<>>, <<Assign(ts, ss)>>) :
               ts \in SeqsUpTo(AssignTargets, 1, MaxArity),
               ss \in SeqsUpTo(AssignSources, 1, MaxArity)}
  /\ scopes \in AssignContexts
  /\ i = 0 /\ j = 1 /\ k = 0
  /\ error = "none"
  /\ log = <<>>
  /\ result = "none"
  /\ passes = 0
  /\ returned = <<>>
  /\ firstPass = Null

NextAssign ==
  \/ ASStart
  \/ ASSource
  \/ ASTarget

SpecAssign == InitAssign /\ [][NextAssign]_vars

(***************************************************************************)
(* optimize(): constant folding of expressions, and what each statement's  *)
(* optimize() leaves in the node and returns.                              *)
(***************************************************************************)
RECURSIVE Fold(_)
Fold(e) ==
  IF e.kind = "bin"
  THEN LET l == Fold(e.left)
           r == Fold(e.right)
       IN IF l.kind = "num" /\ r.kind = "num"
          THEN Num(l.value + r.value)
          ELSE Bin(l, r)
  ELSE e

ParamOptimized(p) == [p EXCEPT !.defaultExpression = Fold(@)]

\* The node as its own optimize() leaves it.
RECURSIVE StmtOptimized(_)
StmtOptimized(s) ==
  IF s.kind = "assign"
  THEN [s EXCEPT !.sources = [n \in 1..Len(s.sources) |-> Fold(s.sources[n])]]
  ELSE IF s.kind = "if"
  THEN [s EXCEPT !.test = Fold(s.test), !.body = StmtOptimized(s.body)]
  ELSE s

SelfAssignment(s) ==
  /\ s.kind = "assign"
  /\ Len(s.targets) = 1 /\ Len(s.sources) = 1
  /\ s.sources[1] = s.targets[1]

\* What optimize() returns: the node, a replacement, or Null for "remove me".
RECURSIVE StmtReturn(_)
StmtReturn(s) ==
  LET t == StmtOptimized(s)
  IN IF SelfAssignment(t) THEN Null
     ELSE IF t.kind = "if" /\ t.test = Bool(FALSE) THEN Null
     ELSE IF t.kind = "if" /\ t.test = Bool(TRUE) THEN StmtReturn(s.body)
     ELSE t

\* Variant: the filter tests the index, and drops the first statement.
FunctionObject_optimizeDropsFirst(f) ==
  [f EXCEPT !.params = [n \in 1..Len(f.params) |-> ParamOptimized(f.params[n])],
            !.body = SubSeq([n \in 1..Len(f.body) |-> StmtOptimized(f.body[n])],
                            2, Len(f.body))]

\* FunctionObject.optimize: the two forEach calls drop what optimize() returns
\* and keep what it did to the nodes; the filter then runs over this.body.
FunctionObject_optimize(f) ==
  LET ps == [n \in 1..Len(f.params) |-> ParamOptimized(f.params[n])]
      b == [n \in 1..Len(f.body) |-> StmtOptimized(f.body[n])]
  IN [f EXCEPT !.params = ps, !.body = SelectSeq(b, LAMBDA s : s # Null)]

ReturnedBy(f) == [n \in 1..Len(f.body) |-> StmtReturn(f.body[n])]

OptimizePass ==
  /\ fn' = FunctionObject_optimize(fn)
  /\ returned' = ReturnedBy(fn)
  /\ passes' = passes + 1
  /\ firstPass' = IF passes = 0 THEN fn' ELSE firstPass

MaxPasses == 2

FOOptimize ==
  /\ pc = "o_ready"
  /\ passes < MaxPasses
  /\ OptimizePass
  /\ log' = Append(log, Call("optimize", "call"))
  /\ UNCHANGED <<pc, opts, scopes, i, j, k, error, result>>

OptExprs ==
  {Num(1), Var("a"), Bin(Num(1), Num(1)), Bin(Bin(Num(1), Num(1)), Num(1)),
   Bin(Var("a"), Bin(Num(1), Num(1)))}
OptStmts ==
  {Assign(<<Var("a")>>, <<e>>) : e \in OptExprs}
    \cup {If(c, Assign(<<Var("a")>>, <<e>>)) :
            c \in {Bool(TRUE), Bool(FALSE), Var("a")},
            e \in {Var("a"), Bin(Num(1), Num(1))}}
OptParams ==
  {<<>>, <<Param("a", Null)>>, <<Param("a", Bin(Num(1), Num(1)))>>,
   <<Param("a", Null), Param("b", Bin(Bin(Num(1), Num(1)), Num(1)))>>}

AnalyzedFunction(ps, b) ==
  [Function(ps, b) EXCEPT
     !.requiredParameterNames = OrderScan(ps, 1, {}, {}).req,
     !.allParameterNames = OrderScan(ps, 1, {}, {}).all]

InitOptimize ==
  /\ pc = "o_ready"
  /\ opts = [NoOpts EXCEPT !.shouldOptimize = TRUE]
  /\ fn \in {AnalyzedFunction(ps, b) : ps \in OptParams, b \in SeqsUpTo(OptStmts, 0, MaxBody)}
  /\ scopes = [root |-> {}, outer |-> {FunDecl},
               local |-> {ParamDecl(fn.params[n].id, n) : n \in 1..Len(fn.params)}]
  /\ i = 0 /\ j = 0 /\ k = 0
  /\ error = "none"
  /\ log = <<>>
  /\ result = "none"
  /\ passes = 0
  /\ returned = <<>>
  /\ firstPass = Null

SpecOptimize == InitOptimize /\ [][FOOptimize]_vars

(***************************************************************************)
(* compile(sourceCode, {astOnly, frontEndOnly, shouldOptimize})            *)
(***************************************************************************)
Programs ==
  {Function(ps, b) : ps \in SeqsUpTo(Params, 0, MaxParams),
                     b \in SeqsUpTo(FunStmts, 0, MaxBody)}

\* const program = parse(sourceCode)
CompileParse ==
  /\ pc = "c_start"
  /\ \/ /\ Throw("SyntaxError", Call("parse", "fail"))
        /\ UNCHANGED fn
     \/ /\ fn' \in Programs
        /\ pc' = "c_parsed"
        /\ log' = Append(log, Call("parse", "return"))
        /\ UNCHANGED error
  /\ UNCHANGED <<opts, scopes, i, j, k, result, passes, returned, firstPass>>

Return(what) ==
  /\ pc' = "returned"
  /\ result' = what

\* if (astOnly) return util.inspect(program)
CompileAstOnly ==
  /\ pc = "c_parsed"
  /\ opts.astOnly
  /\ Return("ast")
  /\ UNCHANGED <<opts, fn, scopes, i, j, k, error, log, passes, returned, firstPass>>

\* program.analyze()
CompileAnalyze ==
  /\ pc = "c_parsed"
  /\ ~opts.astOnly
  /\ pc' = "fd_start"
  /\ log' = Append(log, Call("analyze", "call"))
  /\ UNCHANGED <<opts, fn, scopes, i, j, k, error, result, passes, returned, firstPass>>

\* if (frontEndOnly) return util.inspect(program)
CompileFrontEndOnly ==
  /\ pc = "analyzed"
  /\ opts.frontEndOnly
  /\ Return("decorated")
  /\ UNCHANGED <<opts, fn, scopes, i, j, k, error, log, passes, returned, firstPass>>

\* Variant: the optimizer runs whether or not it was asked for.
CompileOptimizeAlways ==
  /\ pc = "analyzed"
  /\ ~opts.frontEndOnly
  /\ OptimizePass
  /\ pc' = "c_optimized"
  /\ log' = Append(log, Call("optimize", "call"))
  /\ UNCHANGED <<opts, scopes, i, j, k, error, result>>

\* if (shouldOptimize) return program.optimize().gen(): the optimize() call
CompileOptimize ==
  /\ pc = "analyzed"
  /\ ~opts.frontEndOnly
  /\ opts.shouldOptimize
  /\ OptimizePass
  /\ pc' = "c_optimized"
  /\ log' = Append(log, Call("optimize", "call"))
  /\ UNCHANGED <<opts, scopes, i, j, k, error, result>>

\* the gen() call of line 48 or of line 50
CompileGen ==
  /\ \/ pc = "c_optimized"
     \/ pc = "analyzed" /\ ~opts.frontEndOnly /\ ~opts.shouldOptimize
  /\ Return("code")
  /\ log' = Append(log, Call("gen", "call"))
  /\ UNCHANGED <<opts, fn, scopes, i, j, k, error, passes, returned, firstPass>>

InitCompile ==
  /\ pc = "c_start"
  /\ opts \in [astOnly : BOOLEAN, frontEndOnly : BOOLEAN, shouldOptimize : BOOLEAN]
  /\ fn = Null
  /\ scopes = [root |-> {}, outer |-> {}, local |-> {}]
  /\ i = 0 /\ j = 0 /\ k = 0
  /\ error = "none"
  /\ log = <<>>
  /\ result = "none"
  /\ passes = 0
  /\ returned = <<>>
  /\ firstPass = Null

NextCompile ==
  \/ CompileParse
  \/ CompileAstOnly
  \/ CompileAnalyze
  \/ CompileFrontEndOnly
  \/ CompileOptimize
  \/ CompileGen
  \/ Next

SpecCompile == InitCompile /\ [][NextCompile]_vars

(***************************************************************************)
(* Properties.                                                             *)
(***************************************************************************)
NoEvent == Event("none", NoCtx, "", 0, 0, "", NoDecl)
LastEvent == IF log = <<>> THEN NoEvent ELSE log[Len(log)]
Events == {log[n] : n \in 1..Len(log)}
BodyParts == {"assign", "source", "target"}
ParamParts == {"default", "param", "order"}

\* Some required parameter stands after an optional one.
ReqAfterOpt(ps) ==
  \E m, n \in 1..Len(ps) : m < n /\ ~isRequired(ps[m]) /\ isRequired(ps[n])

AnalysisOver == pc \in {"analyzed", "threw"}
ParamsAnalyzed == i = Len(fn.params) + 1 /\ pc \notin {"fd_start", "fd_params"}

LiteralDefaults(ps) ==
  \A n \in 1..Len(ps) : ps[n].defaultExpression \in {Null, Num(1)}

\* C1 as stated: whenever a required parameter follows an optional one, whatever
\* the parameter list (repeated names included), analyze ends with the
\* parameter-order error.  (Stated here for the lists whose defaults are
\* literals, which cannot fail to analyze.)
C1_OrderErrorForEveryList ==
  (AnalysisOver /\ ReqAfterOpt(fn.params) /\ LiteralDefaults(fn.params))
    => error = "ParameterOrder"

\* C1 as amended: when every parameter's own analysis has succeeded (its default
\* resolves and its name is new in the function's scope) and a required
\* parameter follows an optional one, the scan throws the parameter-order error.
C1_OrderErrorOnceParamsAnalyzed ==
  (ParamsAnalyzed /\ pc # "fd_order" /\ ReqAfterOpt(fn.params))
    => (pc = "threw" /\ error = "ParameterOrder")

C1_Witness ==
  /\ pc = "threw" /\ error = "ParameterOrder"
  /\ Len(fn.params) = 2 /\ ReqAfterOpt(fn.params)

DefaultNamesFunction(n) == fn.params[n].defaultExpression = Var(FunId)
\* A declaration of the function's name is visible from parameter n's default:
\* one made earlier in an enclosing scope, or an earlier parameter.
HeldBefore(n) ==
  \/ \E c \in {"root", "outer"} : Earlier(FunId, c) \in scopes[c]
  \/ \E m \in 1..(n - 1) : fn.params[m].id = FunId
DefaultReached(n) == pc # "fd_start" /\ (i > n \/ (i = n /\ pc = "threw"))

FailedChild ==
  IF LastEvent.part = "source" THEN fn.body[j].sources[k] ELSE fn.body[j].targets[k]

\* C3: the function is in the enclosing context before any body statement is
\* analyzed; a reference to its name in the body resolves to the function being
\* declared unless the function's own scope declares that name, and never fails.
C3_BodySeesFunction ==
  /\ \A n \in 1..Len(log) :
       log[n].part \in BodyParts
         => \E m \in 1..(n - 1) :
              log[m] = Event("declare", "outer", "function", 0, 0, FunId, FunDecl)
  /\ pc \in {"fd_body", "as_start", "as_sources", "as_targets", "analyzed"}
       => FunDecl \in scopes["outer"]
  /\ \A e \in Events :
       (e.ev = "resolve" /\ e.part \in BodyParts /\ e.name = FunId
          /\ ~Declares(scopes, "local", FunId))
         => e.ref = FunDecl
  /\ (pc = "threw" /\ LastEvent.part \in {"source", "target"})
       => FunId \notin {VarsOf(FailedChild)[n] : n \in 1..Len(VarsOf(FailedChild))}

C3_Witness ==
  /\ pc = "analyzed"
  /\ \E e \in Events : e.ev = "resolve" /\ e.part = "source" /\ e.ref = FunDecl

\* C9: parameters and body statements are all analyzed against the one child
\* context; the function is declared in the enclosing context, never in the
\* child; its registration fails only on a declaration the enclosing context
\* already held, so a parameter bearing the function's name does not conflict.
C9_OneChildContext ==
  /\ \A e \in Events : e.part \in (ParamParts \cup BodyParts) => e.ctx = "local"
  /\ \A e \in Events :
       (e.part = "function" /\ e.ev \in {"declare", "fail"}) => e.ctx = "outer"
  /\ FunDecl \notin scopes["local"]
  /\ (pc = "threw" /\ LastEvent.part = "function")
       => Earlier(FunId, "outer") \in scopes["outer"]
  /\ (pc \in {"fd_body", "analyzed"} /\ error = "none") => FunDecl \in scopes["outer"]

C9_Witness ==
  /\ pc = "analyzed"
  /\ \E n \in 1..Len(fn.params) : ParamDecl(FunId, n) \in scopes["local"]
  /\ FunDecl \in scopes["outer"]
  /\ Len(fn.body) > 0

\* C10: an error raised while the parameters are processed ends the analysis
\* at once: the enclosing contexts hold what they held before, and no body
\* statement has been analyzed.
C10_FailFastInParameters ==
  (pc = "threw" /\ LastEvent.part \in ParamParts)
    => /\ \A c \in {"root", "outer"} : \A d \in scopes[c] : d = Earlier(d.id, c)
       /\ \A e \in Events : e.part \notin BodyParts
       /\ j = 0
       /\ ~ENABLED Next

C10_Witness ==
  /\ pc = "threw" /\ error = "ParameterOrder"
  /\ Len(fn.body) > 0
  /\ scopes["outer"] # {}

\* Statement n's analyze has been entered and has passed its first line.
Started(n) == j > n \/ (j = n /\ pc \notin {"fd_body", "as_start"})
ChildEvents(n) == {e \in Events : e.part \in {"source", "target"} /\ e.i = n}

\* C4: an assignment whose target and source counts differ fails with the
\* arity-mismatch error before any of its sources or targets is analyzed; one
\* whose counts are equal never raises the arity error.
C4_ArityCheckedFirst ==
  \A n \in 1..Len(fn.body) :
    /\ (Len(fn.body[n].targets) # Len(fn.body[n].sources) /\ Started(n))
         => /\ pc = "threw" /\ error = "ArityMismatch" /\ j = n
            /\ LastEvent = Fail("local", "assign", n, 0)
            /\ ChildEvents(n) = {}
    /\ (Len(fn.body[n].targets) = Len(fn.body[n].sources) /\ j = n)
         => error # "ArityMismatch"

C4_Witness ==
  /\ pc = "threw" /\ error = "ArityMismatch"
  /\ Len(fn.body[1].targets) = 2 /\ Len(fn.body[1].sources) = 1

Analyzed(part, n, c) == Event("analyzed", "local", part, n, c, "", NoDecl)

\* C8: within one assignment every source is analyzed, in list order, before
\* any target is; when the analysis of a source fails no target has been
\* analyzed.
C8_SourcesBeforeTargets ==
  /\ \A x, y \in 1..Len(log) :
       (log[x].part = "target" /\ log[y].part = "source" /\ log[x].i = log[y].i)
         => y < x
  /\ \A x, y \in 1..Len(log) :
       (log[x] = Analyzed("source", log[x].i, log[x].k)
          /\ log[y] = Analyzed("source", log[x].i, log[y].k) /\ x < y)
         => log[x].k < log[y].k
  /\ \A e \in Events :
       e.part = "target"
         => \A c \in 1..Len(fn.body[e.i].sources) : Analyzed("source", e.i, c) \in Events
  /\ (pc = "threw" /\ LastEvent.part = "source")
       => ~\E e \in Events : e.part = "target" /\ e.i = LastEvent.i

C8_Witness ==
  /\ pc = "fd_body" /\ j = 2
  /\ Len(fn.body[1].sources) = 2
  /\ Analyzed("target", 1, 2) \in Events
  /\ \E e \in Events : e.ev = "resolve" /\ e.part = "source"

CallsAt(stage, what) == {n \in 1..Len(log) : log[n] = Call(stage, what)}
AnalysisParts == ParamParts \cup BodyParts \cup {"function"}

\* C5: compile runs parse, analyze, optimize, gen in that order, each to
\* completion before the next: gen only after analyze has returned normally, an
\* analysis error leaves compile with neither optimize nor gen called, optimize
\* only when shouldOptimize is set and only between analyze's return and gen,
\* and with astOnly the dumped tree is returned and none of the three is called.
C5_StagesInOrder ==
  /\ \A st \in {"parse", "analyze", "optimize", "gen"} :
       \A w \in {"call", "return"} : Cardinality(CallsAt(st, w)) <= 1
  /\ \A n \in CallsAt("analyze", "call") : \E m \in CallsAt("parse", "return") : m < n
  /\ \A n \in 1..Len(log) :
       log[n].part \in AnalysisParts
         => /\ \E m \in CallsAt("analyze", "call") : m < n
            /\ \A r \in CallsAt("analyze", "return") : n < r
            /\ \A o \in CallsAt("optimize", "call") \cup CallsAt("gen", "call") : n < o
  /\ \A n \in CallsAt("optimize", "call") :
       /\ opts.shouldOptimize
       /\ \E m \in CallsAt("analyze", "return") : m < n
       /\ \A g \in CallsAt("gen", "call") : n < g
  /\ \A n \in CallsAt("gen", "call") :
       /\ error = "none"
       /\ \E m \in CallsAt("analyze", "return") : m < n
  /\ error # "none"
       => /\ pc = "threw" /\ result = "none"
          /\ CallsAt("optimize", "call") = {} /\ CallsAt("gen", "call") = {}
          /\ passes = 0
  /\ opts.astOnly
       => /\ CallsAt("analyze", "call") = {} /\ CallsAt("optimize", "call") = {}
          /\ CallsAt("gen", "call") = {}
          /\ pc = "returned" => result = "ast"
  /\ (pc = "returned" /\ result = "code") => LastEvent = Call("gen", "call")

C5_Witness ==
  /\ pc = "returned" /\ result = "code"
  /\ opts.shouldOptimize /\ passes = 1
  /\ Len(fn.params) = 2 /\ Len(fn.body) = 2

\* C6: optimizing twice gives what optimizing once gives: a second
\* FunctionObject.optimize leaves the function, its parameter list and its body
\* statement list as the first left them.
C6_OptimizeIdempotent ==
  passes >= 2
    => /\ fn = firstPass
       /\ fn.params = firstPass.params
       /\ fn.body = firstPass.body

C6_Witness ==
  /\ passes = 2
  /\ Len(fn.body) = 2
  /\ fn.body[1] = Assign(<<Var("a")>>, <<Num(3)>>)
  /\ returned[2] = Null
  /\ Len(fn.params) = 2

NotNull(s) == s # Null

\* C7: after FunctionObject.optimize the body is the list of what the
\* statements' optimize() returned, in order, without the Null ("remove me")
\* results: removed statements are absent and replacements stand in place.
C7_BodyReflectsResults ==
  passes >= 1 => fn.body = SelectSeq(returned, NotNull)

====
